---- MODULE Spec2Model ----
(***************************************************************************)
(* Model of src/main.py (Mike voice agent): participant metadata           *)
(* resolution, the agent-context fetch with its fallback, and the          *)
(* timing-prompt scheduler task started by the entrypoint.                 *)
(*                                                                         *)
(* Python values that reach the modelled code from outside (JSON bodies,   *)
(* token claims) are records [t, s, n]: t is the Python type, s the text   *)
(* of a str, n the value of a number.  "absent" is a key missing from a    *)
(* dict, "null" is None.                                                   *)
(***************************************************************************)
EXTENDS Integers, Sequences, FiniteSets, TLC

\* ------------------------------------------------------------------ values
Absent == [t |-> "absent", s |-> "", n |-> 0]
Null == [t |-> "null", s |-> "", n |-> 0]
Str(x) == [t |-> "str", s |-> x, n |-> 0]
Num(k) == [t |-> "num", s |-> "", n |-> k]

\* Python truth value of a value obtained from a dict
Truthy(v) == \/ v.t = "str" /\ v.s # ""
             \/ v.t = "num" /\ v.n # 0

\* d.get(key): a missing key reads as None
Get(v) == IF v.t = "absent" THEN Null ELSE v

\* d.get(key, default)
GetOr(v, d) == IF v.t = "absent" THEN d ELSE v

\* a or b
PyOr(a, b) == IF Truthy(a) THEN a ELSE b

DefaultName == Str("aluno")

\* ------------------------------------------------ participant metadata
\* Claims of a decodable token.  The legacy path also reads given_name,
\* name, sub, preferred_username; the JSON path adds userId and email.
NameVals == {Absent, Str(""), Str("Ana")}
GivenVals == {Absent, Str(""), Str("Bruno")}
SubVals == {Absent, Null, Str(""), Str("123")}
UserIdVals == {Absent, Str("u7")}
EmailVals == {Absent, Str("ana@x")}
PreferredVals == {Absent, Str("ana.p")}

Claims == [name : NameVals, given_name : GivenVals, sub : SubVals,
           userId : UserIdVals, email : EmailVals,
           preferred_username : PreferredVals]

NoClaims == [name |-> Absent, given_name |-> Absent, sub |-> Absent,
             userId |-> Absent, email |-> Absent, preferred_username |-> Absent]

\* A string handed to jwt.decode: either it decodes to a claims dict or
\* jwt.decode raises.  A "jwt" field of a JSON object can also be missing,
\* empty, or a number.
Token(c) == [k |-> "token", claims |-> c]
Undecodable == [k |-> "garbage", claims |-> NoClaims]
JwtMissing == [k |-> "missing", claims |-> NoClaims]
JwtEmpty == [k |-> "empty", claims |-> NoClaims]
JwtNumber == [k |-> "number", claims |-> NoClaims]

AvatarVals == {Absent, Str("nina"), Str("mike")}

\* participant.metadata
\*   none      None
\*   empty     ""
\*   object    text that json.loads turns into a dict
\*   nonobject text that json.loads turns into a list, number, str or None
\*   raw       text that is not JSON (a raw token, or garbage)
MetaNone == [k |-> "none", avatar |-> Absent, jwt |-> JwtMissing]
MetaEmpty == [k |-> "empty", avatar |-> Absent, jwt |-> JwtMissing]
MetaNonObject == [k |-> "nonobject", avatar |-> Absent, jwt |-> JwtMissing]
MetaObject(a, j) == [k |-> "object", avatar |-> a, jwt |-> j]
MetaRaw(j) == [k |-> "raw", avatar |-> Absent, jwt |-> j]

JwtFields(cs) == {JwtMissing, JwtEmpty, JwtNumber, Undecodable} \cup {Token(c) : c \in cs}

MetadataOver(cs) ==
    {MetaNone, MetaEmpty, MetaNonObject}
    \cup {MetaObject(a, j) : a \in AvatarVals, j \in JwtFields(cs)}
    \cup {MetaRaw(j) : j \in {Undecodable} \cup {Token(c) : c \in cs}}

AllMetadata == MetadataOver(Claims)

\* The result dict of parse_participant_metadata; raised = TRUE when the
\* call ends in an exception instead of a return.
Params(nm, em, id, av) ==
    [raised |-> FALSE, name |-> nm, email |-> em, id |-> id, avatar |-> av]
ParseRaised ==
    [raised |-> TRUE, name |-> Absent, email |-> Absent, id |-> Absent, avatar |-> Absent]
NoParams ==
    [raised |-> FALSE, name |-> Absent, email |-> Absent, id |-> Absent, avatar |-> Absent]

\* lines 73-77: identity from a raw token (legacy format)
LegacyName(c) == PyOr(Get(c.given_name), GetOr(c.name, GetOr(c.sub, DefaultName)))
LegacyIdentity(c) ==
    Params(LegacyName(c), Get(c.preferred_username), Get(c.sub), Absent)

\* A variant of JwtName that reads the claims in the legacy order
JwtNameGivenFirst(c) ==
    PyOr(PyOr(Get(c.given_name), Get(c.name)), GetOr(c.sub, DefaultName))

\* lines 96-98: identity from the token inside JSON metadata
JwtName(c) == PyOr(PyOr(Get(c.name), Get(c.given_name)), GetOr(c.sub, DefaultName))
JwtEmail(c) == PyOr(Get(c.email), GetOr(c.preferred_username, Str("")))
JwtId(c) == PyOr(Get(c.userId), GetOr(c.sub, Str("")))

\* lines 81-105: metadata that parsed as a JSON object.  A missing, empty or
\* null "jwt" is falsy (line 93); a number or an undecodable string makes
\* jwt.decode raise, which line 99 catches.
ObjectIdentity(m) ==
    LET av == GetOr(m.avatar, Str("mike")) IN
    IF m.jwt.k = "token"
    THEN Params(JwtName(m.jwt.claims), JwtEmail(m.jwt.claims), JwtId(m.jwt.claims), av)
    ELSE Params(DefaultName, Absent, Absent, av)

\* lines 62-105
parse_participant_metadata(m) ==
    CASE m.k \in {"none", "empty"} -> Params(DefaultName, Absent, Absent, Absent)
      [] m.k = "raw" ->
           IF m.jwt.k = "token" THEN LegacyIdentity(m.jwt.claims)
           ELSE Params(DefaultName, Absent, Absent, Absent)
      [] m.k = "nonobject" -> ParseRaised
      [] OTHER -> ObjectIdentity(m)

\* Metadata the session model runs on: one representative of every path of
\* parse_participant_metadata, both avatars, and a token whose only
\* identity claim is a null sub (the resolved name is then None).
AnaClaims == [NoClaims EXCEPT !.name = Str("Ana"), !.sub = Str("123")]
BrunoClaims == [NoClaims EXCEPT !.given_name = Str("Bruno")]
NullSubClaims == [NoClaims EXCEPT !.sub = Null]

SessionMetadata ==
    {MetaNone, MetaNonObject, MetaRaw(Undecodable), MetaRaw(Token(BrunoClaims)),
     MetaObject(Absent, JwtMissing), MetaObject(Str("nina"), Token(AnaClaims)),
     MetaObject(Str("mike"), Token(NullSubClaims))}

\* ------------------------------------------------------- agent context
DefaultLessonDurationSec == 300
DefaultPronAt == 60
DefaultEndAt == 10

\* Lesson durations the context API is made to deliver besides the default
ShortLessonSec == 5
MidLessonSec == 30

\* atSecRemaining offsets the context API is made to deliver besides the
\* defaults: a pronunciation offset below the default ending offset and an
\* ending offset at the default pronunciation offset
AltPronAt == 10
AltEndAt == 60

\* timingPrompts.<kind>: a missing key or {atSecRemaining, message}
NoWarning == [t |-> "absent", at |-> Absent, message |-> Absent]
Warning(a, msg) == [t |-> "dict", at |-> a, message |-> msg]

PronWarnings ==
    {NoWarning} \cup {Warning(a, msg) : a \in {Absent, Num(AltPronAt)},
                                        msg \in {Absent, Str(""), Str("pron-msg")}}
EndWarnings ==
    {NoWarning} \cup {Warning(a, msg) : a \in {Absent, Num(AltEndAt)},
                                        msg \in {Absent, Str(""), Str("end-msg")}}

\* timingPrompts: a missing key, null, or a dict of the two warnings
EmptyPrompts == [t |-> "dict", pron |-> NoWarning, end |-> NoWarning]
AbsentPrompts == [t |-> "absent", pron |-> NoWarning, end |-> NoWarning]
NullPrompts == [t |-> "null", pron |-> NoWarning, end |-> NoWarning]
Prompts(p, e) == [t |-> "dict", pron |-> p, end |-> e]

PromptVals ==
    {AbsentPrompts, NullPrompts} \cup {Prompts(p, e) : p \in PronWarnings, e \in EndWarnings}

DurationVals == {Absent, Null, Str("five minutes"), Num(ShortLessonSec), Num(MidLessonSec)}

\* systemInstruction: text is a sequence of pieces, so that the
\* "{userName}" placeholder can be found and replaced
NoText == [t |-> "absent", toks |-> <<>>]
NullText == [t |-> "null", toks |-> <<>>]
Text(toks) == [t |-> "str", toks |-> toks]
Placeholder == "{userName}"
InstructionVals == {NoText, NullText, Text(<<"You teach ", Placeholder, ".">>)}

FALLBACK_INSTRUCTION == <<"FALLBACK_INSTRUCTION">>

\* The JSON object of a 200 response (teacherName is only logged)
Bodies ==
    [systemInstruction : InstructionVals,
     initialMessage : {Absent, Str("Say hello")},
     voice : {Absent, Str("Puck")},
     teacherName : {Absent, Str("Mike")},
     timingPrompts : PromptVals,
     lessonDurationSec : DurationVals]

EmptyBody ==
    [systemInstruction |-> NoText, initialMessage |-> Absent, voice |-> Absent,
     teacherName |-> Absent, timingPrompts |-> AbsentPrompts,
     lessonDurationSec |-> Absent]

\* What requests.get / resp.json() do on one call
Response(kind, body) == [kind |-> kind, body |-> body]
FailureKinds == {"non200", "network_error", "timeout", "bad_body"}
Responses ==
    {Response(k, EmptyBody) : k \in FailureKinds \cup {"ok_nonobject"}}
    \cup {Response("ok", b) : b \in Bodies}

\* The value fetch_agent_context returns: None or the dict
NoContext == [t |-> "none", body |-> EmptyBody]
Context(b) == [t |-> "dict", body |-> b]

ErrorEntry(text) == [level |-> "error", text |-> text]
WarningEntry(text) == [level |-> "warning", text |-> text]
InfoEntry(text) == [level |-> "info", text |-> text]

\* lines 108-135.  Line 126-128 logs len(data.get('systemInstruction', ''))
\* and data.get(...): both raise inside the try when the body is not a
\* dict or systemInstruction is null.
fetch_agent_context(r) ==
    CASE r.kind = "non200" ->
           [value |-> NoContext, entry |-> ErrorEntry("Agent context API returned")]
      [] r.kind \in {"network_error", "timeout", "bad_body", "ok_nonobject"} ->
           [value |-> NoContext, entry |-> ErrorEntry("Failed to fetch agent context")]
      [] r.body.systemInstruction.t = "null" ->
           [value |-> NoContext, entry |-> ErrorEntry("Failed to fetch agent context")]
      [] OTHER ->
           [value |-> Context(r.body), entry |-> InfoEntry("Agent context received")]

\* line 121, logged before the request is made
FetchingEntry == InfoEntry("Fetching agent context")

\* `if context:` (line 178): None and the empty dict are falsy
ContextTruthy(c) == c.t = "dict" /\ c.body # EmptyBody

\* str(v) as an f-string renders it
PyStr(v) == IF v.t = "null" THEN "None" ELSE v.s

\* line 186
FallbackSystemInstruction(user_name) ==
    <<"Se apresente como Professor Mike e comece uma aula para ", PyStr(user_name), ".\n">>
    \o FALLBACK_INSTRUCTION

\* A variant of FallbackVoice with the two voices exchanged
FallbackVoiceSwapped(p) ==
    IF GetOr(p.avatar, Str("mike")) # Str("nina") THEN Str("Zephyr") ELSE Str("Charon")

\* line 188
FallbackVoice(p) ==
    IF GetOr(p.avatar, Str("mike")) # Str("nina") THEN Str("Charon") ELSE Str("Zephyr")

\* A variant of FallbackTimingPrompts that ships canned warnings
FallbackWithCannedWarnings ==
    [t |-> "dict", pron |-> [t |-> "dict", at |-> Absent, message |-> Str("pron-msg")],
     end |-> [t |-> "dict", at |-> Absent, message |-> Str("end-msg")]]

\* line 189
FallbackTimingPrompts == EmptyPrompts

\* lines 178-190: the five locals the rest of the entrypoint reads
LessonContext(c, p, user_name) ==
    IF ContextTruthy(c)
    THEN [system_instruction |->
              IF c.body.systemInstruction.t = "absent" THEN FALLBACK_INSTRUCTION
              ELSE c.body.systemInstruction.toks,
          initial_message |-> GetOr(c.body.initialMessage, Str("")),
          voice |-> GetOr(c.body.voice, Str("Charon")),
          timing_prompts |->
              IF c.body.timingPrompts.t = "absent" THEN EmptyPrompts
              ELSE c.body.timingPrompts,
          lesson_duration |-> GetOr(c.body.lessonDurationSec, Num(DefaultLessonDurationSec))]
    ELSE [system_instruction |-> FallbackSystemInstruction(user_name),
          initial_message |-> Str(""),
          voice |-> FallbackVoice(p),
          timing_prompts |-> FallbackTimingPrompts,
          lesson_duration |-> Num(DefaultLessonDurationSec)]

NoLessonContext ==
    [system_instruction |-> <<>>, initial_message |-> Absent, voice |-> Absent,
     timing_prompts |-> AbsentPrompts, lesson_duration |-> Absent]

\* str.replace(old, new) on the pieces of a text
Replace(toks, old, new) == [i \in DOMAIN toks |-> IF toks[i] = old THEN new ELSE toks[i]]

\* ------------------------------------------------- timing-prompt scheduler
\* lines 240-244 and 251, on a numeric lesson_duration
PronAt(tp) == GetOr(tp.pron.at, Num(DefaultPronAt)).n
EndAt(tp) == GetOr(tp.end.at, Num(DefaultEndAt)).n
PronDelay(tp, dur) == dur.n - PronAt(tp)
EndDelay(tp, dur) == dur.n - EndAt(tp)
\* A variant of RemainingWait that schedules the ending wait on its own
RemainingWaitFromStart(tp, dur) == dur.n - GetOr(tp.end.at, Num(DefaultEndAt)).n

RemainingWait(tp, dur) == EndDelay(tp, dur) - PronDelay(tp, dur)

\* line 246 and line 252
PronDue(tp, dur) == PronDelay(tp, dur) > 0 /\ Truthy(Get(tp.pron.message))
EndDue(tp, dur) == RemainingWait(tp, dur) > 0 /\ Truthy(Get(tp.end.message))

\* lines 237-244 raise: None has no .get; None or a str minus an int
ComputeFaults(tp, dur) == tp.t # "dict" \/ dur.t # "num"

\* A variant of OnCancelled that treats cancellation like any other exception
OnCancelledLogged(lg) == Append(lg, ErrorEntry("Timing prompt error"))

\* line 256-257: `except asyncio.CancelledError: pass`
OnCancelled(lg) == lg

\* A variant of OnFault without the `except Exception` clause
OnFaultPropagates(lg) == [log |-> lg, exception |-> "Exception"]

\* line 258-259: what the task does with any other exception
OnFault(lg) == [log |-> Append(lg, ErrorEntry("Timing prompt error")), exception |-> "none"]

\* The stage reached when the code before the first suspension has run
\* (lines 246, 251-252)
StageAfterStart(tp, dur) ==
    IF PronDue(tp, dur) THEN "wait_pron"
    ELSE IF EndDue(tp, dur) THEN "wait_end" ELSE "done"

\* A variant of StageAfterPron that arms the first timer again
StageAfterPronRearmed(tp, dur) == "wait_pron"

\* The stage reached after the pronunciation prompt (lines 251-252)
StageAfterPron(tp, dur) == IF EndDue(tp, dur) THEN "wait_end" ELSE "done"

Reply(kind, text, at) == [kind |-> kind, text |-> text, at |-> at]

VARIABLES
    metadata,       \* participant.metadata
    params,         \* result of parse_participant_metadata
    epc,            \* position of the entrypoint coroutine
    response,       \* what the context API did (set when it is called)
    context,        \* value returned by fetch_agent_context
    lesson,         \* system_instruction, initial_message, voice, timing_prompts, lesson_duration
    tracing,        \* "unset", "on" or "off" (setup_langfuse failed)
    sessionState,   \* "new" or "running"
    entered,        \* MikeAgent.on_enter has run
    replies,        \* calls of session.generate_reply, in order
    log,            \* logger records, in order
    spc,            \* stage of the send_timing_prompts task
    elapsed,        \* seconds slept by the task so far
    pronStatus,     \* "pending", "sent", "skipped"
    endStatus,      \* "pending", "sent", "skipped"
    faulted,        \* the task ended in `except Exception`
    taskException   \* exception the task object ended with, "none" if it returned

vars == <<metadata, params, epc, response, context, lesson, tracing, sessionState,
          entered, replies, log, spc, elapsed, pronStatus, endStatus, faulted,
          taskException>>

entryVars == <<metadata, params, response, context, lesson, tracing>>
schedVars == <<spc, elapsed, pronStatus, endStatus, faulted, taskException>>

NoResponse == Response("none", EmptyBody)

InitOver(ms) ==
    /\ metadata \in ms
    /\ params = NoParams
    /\ epc = "joined"
    /\ response = NoResponse
    /\ context = NoContext
    /\ lesson = NoLessonContext
    /\ tracing = "unset"
    /\ sessionState = "new"
    /\ entered = FALSE
    /\ replies = <<>>
    /\ log = <<>>
    /\ spc = "none"
    /\ elapsed = 0
    /\ pronStatus = "pending"
    /\ endStatus = "pending"
    /\ faulted = FALSE
    /\ taskException = "none"

Init == InitOver(SessionMetadata)

\* entrypoint lines 164-173
ParseMetadata ==
    /\ epc = "joined"
    /\ params' = parse_participant_metadata(metadata)
    /\ epc' = IF params'.raised THEN "raised" ELSE "parsed"
    /\ log' = IF params'.raised THEN log ELSE Append(log, InfoEntry("Participant joined"))
    /\ UNCHANGED <<metadata, response, context, lesson, tracing, sessionState, entered,
                   replies>>
    /\ UNCHANGED schedVars

user_name == GetOr(params.name, DefaultName)

\* entrypoint lines 176-193: the fetch, the choice of the lesson context and
\* the personalisation; str.replace raises TypeError on a name that is None
FetchContext ==
    /\ epc = "parsed"
    /\ \E r \in Responses :
         LET got == fetch_agent_context(r)
             lc == LessonContext(got.value, params, user_name)
         IN /\ response' = r
            /\ context' = got.value
            /\ log' = log \o <<FetchingEntry, got.entry>>
            /\ IF user_name.t = "str"
               THEN /\ lesson' = [lc EXCEPT !.system_instruction =
                                     Replace(lc.system_instruction, Placeholder, user_name.s)]
                    /\ epc' = "prepared"
               ELSE /\ lesson' = lc
                    /\ epc' = "raised"
    /\ UNCHANGED <<metadata, params, tracing, sessionState, entered, replies>>
    /\ UNCHANGED schedVars

\* entrypoint lines 195-209: setup_langfuse raises when a setting is missing
SetupTracing ==
    /\ epc = "prepared"
    /\ \E ok \in BOOLEAN :
         /\ tracing' = IF ok THEN "on" ELSE "off"
         /\ log' = IF ok THEN log ELSE Append(log, WarningEntry("Langfuse setup failed"))
    /\ epc' = "traced"
    /\ UNCHANGED <<metadata, params, response, context, lesson, sessionState, entered,
                   replies>>
    /\ UNCHANGED schedVars

\* entrypoint lines 211-232
SessionStart ==
    /\ epc = "traced"
    /\ sessionState' = "running"
    /\ epc' = "started"
    /\ UNCHANGED <<entered, replies, log>>
    /\ UNCHANGED entryVars
    /\ UNCHANGED schedVars

\* MikeAgent.on_enter lines 153-157
OnEnter ==
    /\ sessionState = "running"
    /\ ~entered
    /\ entered' = TRUE
    /\ replies' = Append(replies,
                         Reply("initial",
                               IF Truthy(lesson.initial_message) THEN lesson.initial_message
                               ELSE Absent,
                               0))
    /\ UNCHANGED <<epc, sessionState, log>>
    /\ UNCHANGED entryVars
    /\ UNCHANGED schedVars

\* entrypoint line 261
CreateTask ==
    /\ epc = "started"
    /\ epc' = "returned"
    /\ spc' = "idle"
    /\ UNCHANGED <<sessionState, entered, replies, log, elapsed, pronStatus, endStatus,
                   faulted, taskException>>
    /\ UNCHANGED entryVars

\* The task ends in `except Exception`
Fault ==
    /\ spc' = "done"
    /\ faulted' = TRUE
    /\ log' = OnFault(log).log
    /\ taskException' = OnFault(log).exception

\* send_timing_prompts from its first line to the first suspension or the end
\* (lines 236-246, 251-252)
SchedStart ==
    /\ spc = "idle"
    /\ IF ComputeFaults(lesson.timing_prompts, lesson.lesson_duration)
       THEN /\ Fault
            /\ UNCHANGED <<pronStatus, endStatus>>
       ELSE LET tp == lesson.timing_prompts
                dur == lesson.lesson_duration
            IN /\ spc' = StageAfterStart(tp, dur)
               /\ pronStatus' = IF PronDue(tp, dur) THEN "pending" ELSE "skipped"
               /\ endStatus' = IF ~PronDue(tp, dur) /\ ~EndDue(tp, dur)
                               THEN "skipped" ELSE "pending"
               /\ UNCHANGED <<log, faulted, taskException>>
    /\ UNCHANGED <<epc, sessionState, entered, replies, elapsed>>
    /\ UNCHANGED entryVars

\* The first sleep returns: lines 247-252; generate_reply may raise
PronTimer ==
    /\ spc = "wait_pron"
    /\ LET tp == lesson.timing_prompts
           dur == lesson.lesson_duration
       IN /\ elapsed' = elapsed + PronDelay(tp, dur)
          /\ \E ok \in BOOLEAN :
               IF ok
               THEN /\ replies' = Append(replies, Reply("pron", tp.pron.message, elapsed'))
                    /\ log' = Append(log, InfoEntry("Sending pronunciation warning"))
                    /\ pronStatus' = "sent"
                    /\ spc' = StageAfterPron(tp, dur)
                    /\ endStatus' = IF EndDue(tp, dur) THEN "pending" ELSE "skipped"
                    /\ UNCHANGED <<faulted, taskException>>
               ELSE /\ spc' = "done"
                    /\ faulted' = TRUE
                    /\ log' = OnFault(Append(log, InfoEntry("Sending pronunciation warning"))).log
                    /\ taskException' = OnFault(log).exception
                    /\ UNCHANGED <<replies, pronStatus, endStatus>>
    /\ UNCHANGED <<epc, sessionState, entered>>
    /\ UNCHANGED entryVars

\* The second sleep returns: lines 253-255
EndTimer ==
    /\ spc = "wait_end"
    /\ LET tp == lesson.timing_prompts
           dur == lesson.lesson_duration
       IN /\ elapsed' = elapsed + RemainingWait(tp, dur)
          /\ \E ok \in BOOLEAN :
               IF ok
               THEN /\ replies' = Append(replies, Reply("end", tp.end.message, elapsed'))
                    /\ log' = Append(log, InfoEntry("Sending ending warning"))
                    /\ endStatus' = "sent"
                    /\ UNCHANGED <<faulted, taskException>>
               ELSE /\ faulted' = TRUE
                    /\ log' = OnFault(Append(log, InfoEntry("Sending ending warning"))).log
                    /\ taskException' = OnFault(log).exception
                    /\ UNCHANGED <<replies, endStatus>>
    /\ spc' = "done"
    /\ UNCHANGED <<epc, sessionState, entered, pronStatus>>
    /\ UNCHANGED entryVars

\* The task is cancelled before it ran or while it sleeps (lines 256-257).
\* The part of the interrupted sleep that had passed is not counted in elapsed.
Cancel ==
    /\ spc \in {"idle", "wait_pron", "wait_end"}
    /\ spc' = "cancelled"
    /\ log' = OnCancelled(log)
    /\ UNCHANGED <<epc, sessionState, entered, replies, elapsed, pronStatus, endStatus,
                   faulted, taskException>>
    /\ UNCHANGED entryVars

Next ==
    \/ ParseMetadata
    \/ FetchContext
    \/ SetupTracing
    \/ SessionStart
    \/ OnEnter
    \/ CreateTask
    \/ SchedStart
    \/ PronTimer
    \/ EndTimer
    \/ Cancel

Spec == Init /\ [][Next]_vars

\* asyncio runs a ready task and wakes a sleeper whose time has come; nothing
\* obliges anyone to cancel
FairSpec ==
    /\ Spec
    /\ WF_vars(SchedStart)
    /\ WF_vars(PronTimer)
    /\ WF_vars(EndTimer)

\* Metadata resolution alone, over every modelled metadata value
InitResolve == InitOver(AllMetadata)

SpecResolve == InitResolve /\ [][ParseMetadata]_vars

\* ------------------------------------------------------------- properties
IndicesOf(kind) == {i \in DOMAIN replies : replies[i].kind = kind}
ErrorCount(lg) == Cardinality({i \in DOMAIN lg : lg[i].level = "error"})
Scheduled(rs) == SelectSeq(rs, LAMBDA r : r.kind # "initial")
IsPrefix(a, b) == Len(a) <= Len(b) /\ SubSeq(b, 1, Len(a)) = a
PastFetch == response.kind # "none"

\* C1: whenever an ending-warning prompt is sent, the time elapsed since the
\* scheduler started equals endDelay = lessonDurationSec - endAt, also in
\* runs in which the pronunciation prompt was skipped.
EndingSentAtEndDelay ==
    \A i \in IndicesOf("end") :
        replies[i].at = EndDelay(lesson.timing_prompts, lesson.lesson_duration)

\* C2: no timing prompt is sent whose own delay lessonDurationSec -
\* atSecRemaining is non-positive.
NoPromptWithNonPositiveDelay ==
    /\ \A i \in IndicesOf("pron") :
           PronDelay(lesson.timing_prompts, lesson.lesson_duration) > 0
    /\ \A i \in IndicesOf("end") :
           EndDelay(lesson.timing_prompts, lesson.lesson_duration) > 0

\* C3: in every run in which both prompts are sent, the pronunciation prompt
\* is sent strictly before the ending prompt: it is the earlier call, it
\* fires at pronDelay and the ending prompt at the later time endDelay.
PronunciationBeforeEnding ==
    \A i \in IndicesOf("pron") : \A j \in IndicesOf("end") :
        /\ i < j
        /\ replies[i].at < replies[j].at
        /\ replies[i].at = PronDelay(lesson.timing_prompts, lesson.lesson_duration)
        /\ replies[j].at = EndDelay(lesson.timing_prompts, lesson.lesson_duration)

BothPromptsSent ==
    /\ spc = "done"
    /\ IndicesOf("pron") # {}
    /\ IndicesOf("end") # {}

\* C4: once the scheduler task is cancelled it stays cancelled, no further
\* scheduled prompt is sent, no error is logged, and the task does not end
\* in a fault.
CancellationIsSilent ==
    [][/\ spc = "cancelled" => spc' = "cancelled"
       /\ spc' = "cancelled" =>
            /\ Scheduled(replies') = Scheduled(replies)
            /\ ErrorCount(log') = ErrorCount(log)
            /\ ~faulted'
            /\ taskException' = "none"]_vars

CancelledInSecondWait ==
    /\ spc = "cancelled"
    /\ pronStatus = "sent"
    /\ endStatus = "pending"
    /\ IndicesOf("end") = {}

\* C5: for every metadata input, parse_participant_metadata does not raise
\* and returns a name that is a non-empty string.
ResolveNeverRaisesNonEmptyName ==
    epc # "joined" =>
        /\ ~params.raised
        /\ params.name.t = "str"
        /\ params.name.s # ""

\* C6: when the fetch does not succeed (non-200, network error, timeout, body
\* parse failure) fetch_agent_context returns None and the entrypoint builds
\* the fallback lesson context: 300 seconds, no timing prompts, the canned
\* instruction with the user's name in it, Zephyr for avatar nina and Charon
\* otherwise.
FetchFailureFallsBack ==
    (PastFetch /\ response.kind \in FailureKinds) =>
        /\ context = NoContext
        /\ lesson.lesson_duration = Num(DefaultLessonDurationSec)
        /\ lesson.timing_prompts = EmptyPrompts
        /\ lesson.initial_message = Str("")
        /\ \E i \in DOMAIN lesson.system_instruction :
               lesson.system_instruction[i] = PyStr(user_name)
        /\ \E i \in DOMAIN lesson.system_instruction :
               lesson.system_instruction[i] = FALLBACK_INSTRUCTION[1]
        /\ lesson.voice = IF params.avatar = Str("nina") THEN Str("Zephyr") ELSE Str("Charon")
        /\ \E i \in DOMAIN log :
               log[i].level = "error" /\ log[i] # ErrorEntry("Timing prompt error")

FallbackSessionForNina ==
    /\ epc = "returned"
    /\ response.kind = "non200"
    /\ params.avatar = Str("nina")
    /\ params.name = Str("Ana")
    /\ lesson.voice = Str("Zephyr")

\* C7: a fault inside the scheduler is logged inside the task, does not leave
\* the task as an exception, leaves the session running and leaves the
\* replies already requested in place.
SchedulerFaultContained ==
    /\ [](faulted =>
            /\ taskException = "none"
            /\ sessionState = "running"
            /\ spc = "done"
            /\ \E i \in DOMAIN log : log[i] = ErrorEntry("Timing prompt error"))
    /\ [][faulted' => (IsPrefix(replies, replies') /\ sessionState' = sessionState)]_vars

FaultAfterPronunciationSent ==
    /\ faulted
    /\ pronStatus = "sent"
    /\ IndicesOf("pron") # {}
    /\ sessionState = "running"

\* C8 as stated: a token in the jwt field with claims name=n and sub=s gives
\* name=n and id=s; a raw token with given_name=g gives name=g; "aluno" only
\* when no identity claim is available or decoding fails.
IdentityClaim(c) == Truthy(c.name) \/ Truthy(c.given_name) \/ Truthy(c.sub)

DefaultNameOnlyWithoutClaims ==
    (epc = "parsed" /\ params.name = DefaultName) =>
        \/ metadata.jwt.k # "token"
        \/ ~IdentityClaim(metadata.jwt.claims)

TokenClaimsDecideIdentity ==
    /\ (epc = "parsed" /\ metadata.k = "object" /\ metadata.jwt.k = "token"
          /\ metadata.jwt.claims.name.t = "str" /\ metadata.jwt.claims.sub.t = "str") =>
         /\ params.name = metadata.jwt.claims.name
         /\ params.id = metadata.jwt.claims.sub
    /\ (epc = "parsed" /\ metadata.k = "raw" /\ metadata.jwt.k = "token"
          /\ metadata.jwt.claims.given_name.t = "str") =>
         params.name = metadata.jwt.claims.given_name
    /\ DefaultNameOnlyWithoutClaims

\* C8 amended: a non-empty name claim n gives name=n; the id is the sub
\* claim s unless the token has a truthy userId claim, which is then the id;
\* a raw token with a non-empty given_name=g gives name=g; "aluno" only when
\* no identity claim is available or decoding fails.
NonEmptyTokenClaimsDecideIdentity ==
    /\ (epc = "parsed" /\ metadata.k = "object" /\ metadata.jwt.k = "token"
          /\ Truthy(metadata.jwt.claims.name) /\ metadata.jwt.claims.sub.t # "absent") =>
         /\ params.name = metadata.jwt.claims.name
         /\ ~Truthy(metadata.jwt.claims.userId) => params.id = metadata.jwt.claims.sub
         /\ Truthy(metadata.jwt.claims.userId) => params.id = metadata.jwt.claims.userId
    /\ (epc = "parsed" /\ metadata.k = "raw" /\ metadata.jwt.k = "token"
          /\ Truthy(metadata.jwt.claims.given_name)) =>
         params.name = metadata.jwt.claims.given_name
    /\ DefaultNameOnlyWithoutClaims

AnaResolvedFromJwtField ==
    /\ epc = "parsed"
    /\ metadata.k = "object"
    /\ metadata.jwt.k = "token"
    /\ metadata.jwt.claims.name = Str("Ana")
    /\ metadata.jwt.claims.given_name = Str("Bruno")
    /\ metadata.jwt.claims.sub = Str("123")
    /\ metadata.jwt.claims.userId = Absent
    /\ params.name = Str("Ana")
    /\ params.id = Str("123")

\* C9: a run only moves forward through idle, waiting for the pronunciation
\* prompt, waiting for the ending prompt and done; each prompt is sent at most
\* once; cancelled is absorbing; and with timers that elapse every run that
\* is not cancelled reaches done.
Rank(stage) ==
    CASE stage = "none" -> 0
      [] stage = "idle" -> 1
      [] stage = "wait_pron" -> 2
      [] stage = "wait_end" -> 3
      [] OTHER -> 4

StatusForward(old, new) == old = new \/ old = "pending"

SchedulerRunsForwardToDone ==
    /\ [][/\ Rank(spc) <= Rank(spc')
          /\ spc \in {"done", "cancelled"} => spc' = spc
          /\ StatusForward(pronStatus, pronStatus')
          /\ StatusForward(endStatus, endStatus')
          /\ pronStatus' = "sent" => Rank(spc') >= 3
          /\ endStatus' = "sent" => spc' = "done"]_vars
    /\ [](/\ Cardinality(IndicesOf("pron")) <= 1
          /\ Cardinality(IndicesOf("end")) <= 1
          /\ Len(Scheduled(replies)) <= 2
          /\ (pronStatus = "sent") = (IndicesOf("pron") # {})
          /\ (endStatus = "sent") = (IndicesOf("end") # {}))
    /\ (spc = "idle") ~> (spc \in {"done", "cancelled"})

RunDoneWithBothSent ==
    /\ spc = "done"
    /\ ~faulted
    /\ pronStatus = "sent"
    /\ endStatus = "sent"

\* C10: when the fetch yielded no usable context (None or an empty object)
\* the scheduler sends neither prompt; the only reply requested is the
\* initial one of on_enter.
FallbackSendsNoTimingPrompt ==
    (PastFetch /\ ~ContextTruthy(context)) =>
        /\ \A i \in DOMAIN replies : replies[i].kind = "initial"
        /\ Len(replies) <= 1
        /\ spc \in {"wait_pron", "wait_end"} => FALSE

FallbackRunDoneInitialReplyOnly ==
    /\ PastFetch
    /\ response.kind = "ok"
    /\ context = Context(EmptyBody)
    /\ spc = "done"
    /\ Len(replies) = 1
    /\ replies[1].kind = "initial"

====
